---- MODULE Spec2Model ----
(***************************************************************************)
(* Model of yara-x's WebAssembly runtime glue (src/src/wasm.rs):           *)
(*   - the host functions exposed to the generated module (rule_match,     *)
(*     is_pat_match, is_pat_match_at, is_pat_match_in) and the per-scan    *)
(*     ScanContext they act on;                                            *)
(*   - ModuleBuilder (new / main_fn / wasm_symbols / build).               *)
(***************************************************************************)
EXTENDS Integers, Sequences, FiniteSets, TLC

VARIABLES
    ctx,        \* scan -> ScanContext (the wasmtime store data of that scan)
    status,     \* scan -> "running" | "trapped" (a host panic unwound out of main)
    calls,      \* history: the rule_match invocations so far, in call order
    last,       \* history: the most recent host call and what it returned
    builder,    \* the ModuleBuilder, or Consumed once build() has taken it
    handle,     \* TRUE while an InstrSeqBuilder returned by main_fn() is borrowed
    main_fn_calls, \* history: number of main_fn() calls made on the builder
    appended,   \* history: every instruction appended through a handle, in order
    symbols,    \* the last WasmSymbols copy returned by wasm_symbols(), or NoSymbols
    artifact,   \* the walrus::Module returned by build(), or NoModule
    once,       \* lazy static -> "incomplete" | "running" | "complete"
    value,      \* lazy static -> its value once constructed, else NoValue
    inits,      \* history: lazy static -> number of times its initializer started
    thr,        \* thread -> its position in a use of a lazy static
    outcome,    \* scan -> rule id -> what evaluating that rule's condition yields
    ev          \* scan -> where its main is: rule, phase, the exception_flag local

vars == <<ctx, status, calls, last,
          builder, handle, main_fn_calls, appended, symbols, artifact,
          once, value, inits, thr, outcome, ev>>

scanVars == <<ctx, status, calls, last>>
builderVars == <<builder, handle, main_fn_calls, appended, symbols, artifact>>
lazyVars == <<once, value, inits, thr>>
evalVars == <<outcome, ev>>

----------------------------------------------------------------------------
(* Bounds of the model.                                                    *)

\* Number of rules of the compiled rule set (bitmap size).
RuleCount == 2
\* Number of patterns of the compiled rule set.
PatternCount == 1
\* Cap on the number of rule_match invocations in one behaviour.
MaxCalls == 3
\* Width of usize, scaled down from 64 so that 2^width fits TLC's integers.
UsizeBits == 8
\* Width of the i64 offsets, scaled down from 64 for the same reason.
I64Bits == 4
\* Cap on the number of instructions appended to main.
MaxInstrs == 4
\* Cap on the number of main_fn() calls on the builder.
MaxMainFnCalls == 3

Scans == {"s1", "s2"}
RuleIds == 0 .. (RuleCount - 1)
PatternIds == 0 .. (PatternCount - 1)
\* Arguments generated code may pass: valid ids and ids on both sides of the range.
RuleIdArgs == -1 .. RuleCount
PatternIdArgs == -1 .. PatternCount

I64_MIN == -(2 ^ (I64Bits - 1))
I64_MAX == (2 ^ (I64Bits - 1)) - 1
RecordedOffsets == {1, 3}
OffsetArgs == {I64_MIN, 1, 2, 3, I64_MAX}

----------------------------------------------------------------------------
(* ScanContext and the host functions.                                     *)

\* The pattern-match index of a scan: pattern id -> set of match offsets.
EmptyIndex == [p \in PatternIds |-> {}]
ScenarioIndex == [p \in PatternIds |-> RecordedOffsets]
Indexes == [PatternIds -> SUBSET RecordedOffsets]

\* A freshly created scan context: one cleared bit per rule, no match yet.
NewScanContext(nrules, index) ==
    [ rules_matching_bitmap |-> [i \in 1 .. nrules |-> FALSE],
      rules_matching        |-> <<>>,
      pattern_matches       |-> index ]

\* The offsets recorded for a pattern id; none for an id the index lacks.
Recorded(scan_ctx, pattern_id) ==
    IF pattern_id \in DOMAIN scan_ctx.pattern_matches
    THEN scan_ctx.pattern_matches[pattern_id]
    ELSE {}

\* `rule_id as usize`: an i32 is sign-extended, then reinterpreted as unsigned.
as_usize(rule_id) == rule_id % (2 ^ UsizeBits)

\* rules_matching_bitmap.set(index, true) panics when index >= len.
rule_match_panics(scan_ctx, rule_id) ==
    as_usize(rule_id) >= Len(scan_ctx.rules_matching_bitmap)

\* Mutant: the bit is never set, only the id is pushed.
rule_match_no_set(scan_ctx, rule_id) ==
    IF rule_match_panics(scan_ctx, rule_id)
    THEN scan_ctx
    ELSE [scan_ctx EXCEPT !.rules_matching = Append(@, rule_id)]

\* Mutant: an out-of-range index grows the bitmap instead of panicking.
rule_match_grow(scan_ctx, rule_id) ==
    IF rule_match_panics(scan_ctx, rule_id)
    THEN [scan_ctx EXCEPT
            !.rules_matching_bitmap = Append(@, TRUE),
            !.rules_matching = Append(@, rule_id)]
    ELSE [scan_ctx EXCEPT
            !.rules_matching_bitmap[as_usize(rule_id) + 1] = TRUE,
            !.rules_matching = Append(@, rule_id)]

\* Mutant: the id is inserted at the front of the list.
rule_match_push_front(scan_ctx, rule_id) ==
    IF rule_match_panics(scan_ctx, rule_id)
    THEN scan_ctx
    ELSE [scan_ctx EXCEPT
            !.rules_matching_bitmap[as_usize(rule_id) + 1] = TRUE,
            !.rules_matching = <<rule_id>> \o @]

\* Mutant: the id is pushed only when its bit was not yet set.
rule_match_dedup(scan_ctx, rule_id) ==
    IF rule_match_panics(scan_ctx, rule_id)
    THEN scan_ctx
    ELSE [scan_ctx EXCEPT
            !.rules_matching_bitmap[as_usize(rule_id) + 1] = TRUE,
            !.rules_matching =
                IF scan_ctx.rules_matching_bitmap[as_usize(rule_id) + 1]
                THEN @ ELSE Append(@, rule_id)]

\* Mutant: the id is pushed before the bit is set, so a panicking set()
\* leaves the pushed id behind.
rule_match_push_first(scan_ctx, rule_id) ==
    IF rule_match_panics(scan_ctx, rule_id)
    THEN [scan_ctx EXCEPT !.rules_matching = Append(@, rule_id)]
    ELSE [scan_ctx EXCEPT
            !.rules_matching_bitmap[as_usize(rule_id) + 1] = TRUE,
            !.rules_matching = Append(@, rule_id)]

\* Mutant: the bitmap is cleared before the bit is set.
rule_match_clear_others(scan_ctx, rule_id) ==
    IF rule_match_panics(scan_ctx, rule_id)
    THEN scan_ctx
    ELSE [scan_ctx EXCEPT
            !.rules_matching_bitmap =
                [i \in DOMAIN @ |-> i = as_usize(rule_id) + 1],
            !.rules_matching = Append(@, rule_id)]

\* rule_match: set bit rule_id, then push rule_id. When set() panics neither
\* statement has taken effect.
rule_match(scan_ctx, rule_id) ==
    IF rule_match_panics(scan_ctx, rule_id)
    THEN scan_ctx
    ELSE [scan_ctx EXCEPT
            !.rules_matching_bitmap[as_usize(rule_id) + 1] = TRUE,
            !.rules_matching = Append(@, rule_id)]

\* The three queries are stubs: each returns 0 whatever its arguments.
is_pat_match(scan_ctx, pattern_id) == 0

is_pat_match_at(scan_ctx, pattern_id, offset) == 0

is_pat_match_in(scan_ctx, pattern_id, lower_bound, upper_bound) == 0

----------------------------------------------------------------------------
(* Host calls made by the running main function of scan s.                 *)

NoCall == [scan |-> "none", fn |-> "none", args |-> <<>>, ret |-> <<>>]

Running(s) == s \in DOMAIN ctx /\ status[s] = "running"

\* Mutant: the context is process-wide, so every scan's context is updated.
RuleMatchCall_shared(s, r) ==
    /\ Running(s)
    /\ Len(calls) < MaxCalls
    /\ ctx' = [t \in DOMAIN ctx |-> rule_match(ctx[t], r)]
    /\ status' = [status EXCEPT
                    ![s] = IF rule_match_panics(ctx[s], r) THEN "trapped" ELSE @]
    /\ calls' = Append(calls, [scan |-> s, rule_id |-> r])
    /\ last' = [scan |-> s, fn |-> "rule_match", args |-> <<r>>, ret |-> <<>>]
    /\ UNCHANGED <<builderVars, lazyVars, evalVars>>

\* main calls rule_match(r): caller.data_mut() is the context of s's own store.
RuleMatchCall(s, r) ==
    /\ Running(s)
    /\ Len(calls) < MaxCalls
    /\ ctx' = [ctx EXCEPT ![s] = rule_match(ctx[s], r)]
    /\ status' = [status EXCEPT
                    ![s] = IF rule_match_panics(ctx[s], r) THEN "trapped" ELSE @]
    /\ calls' = Append(calls, [scan |-> s, rule_id |-> r])
    /\ last' = [scan |-> s, fn |-> "rule_match", args |-> <<r>>, ret |-> <<>>]
    /\ UNCHANGED <<builderVars, lazyVars, evalVars>>

\* Mutant: the query records its id as rule_match would.
IsPatMatchCall_records(s, p) ==
    /\ Running(s)
    /\ last' = [scan |-> s, fn |-> "is_pat_match", args |-> <<p>>,
                ret |-> <<is_pat_match(ctx[s], p)>>]
    /\ ctx' = [ctx EXCEPT ![s].rules_matching = Append(@, p)]
    /\ UNCHANGED <<status, calls>>
    /\ UNCHANGED <<builderVars, lazyVars, evalVars>>

IsPatMatchCall(s, p) ==
    /\ Running(s)
    /\ last' = [scan |-> s, fn |-> "is_pat_match", args |-> <<p>>,
                ret |-> <<is_pat_match(ctx[s], p)>>]
    /\ UNCHANGED <<ctx, status, calls>>
    /\ UNCHANGED <<builderVars, lazyVars, evalVars>>

IsPatMatchAtCall(s, p, o) ==
    /\ Running(s)
    /\ last' = [scan |-> s, fn |-> "is_pat_match_at", args |-> <<p, o>>,
                ret |-> <<is_pat_match_at(ctx[s], p, o)>>]
    /\ UNCHANGED <<ctx, status, calls>>
    /\ UNCHANGED <<builderVars, lazyVars, evalVars>>

IsPatMatchInCall(s, p, lo, hi) ==
    /\ Running(s)
    /\ last' = [scan |-> s, fn |-> "is_pat_match_in", args |-> <<p, lo, hi>>,
                ret |-> <<is_pat_match_in(ctx[s], p, lo, hi)>>]
    /\ UNCHANGED <<ctx, status, calls>>
    /\ UNCHANGED <<builderVars, lazyVars, evalVars>>

----------------------------------------------------------------------------
(* ModuleBuilder.                                                          *)

I32 == "i32"
I64 == "i64"

\* Instructions the code generator appends to main.
Instrs == {"i32_const", "call_rule_match"}

Consumed == [moved |-> TRUE]
NoModule == [none |-> TRUE]
NoSymbols == [none |-> TRUE]

FuncType(params, results) == [params |-> params, results |-> results]

\* walrus::Module::with_config(ModuleConfig::new()): an empty module.
EmptyModule ==
    [ types |-> {}, imports |-> <<>>, funcs |-> <<>>, locals |-> <<>>,
      exports |-> <<>> ]

\* module.types.add(params, results) followed by
\* module.add_import_func(module, name, ty): one more imported function.
add_import_func(m, mod, name, ty) ==
    [m EXCEPT
        !.types = @ \cup {ty},
        !.funcs = Append(@, [kind |-> "import", ty |-> ty, body |-> <<>>]),
        !.imports = Append(@, [module |-> mod, name |-> name,
                               func |-> Len(m.funcs) + 1])]

\* module.locals.add(ty): one more local; its id is its position.
locals_add(m, ty) == [m EXCEPT !.locals = Append(@, ty)]

\* ModuleBuilder::new().
new ==
    LET m0 == EmptyModule
        m1 == add_import_func(m0, "internal", "rule_match",
                              FuncType(<<I32>>, <<>>))
        m2 == add_import_func(m1, "internal", "is_pat_match",
                              FuncType(<<I32>>, <<I32>>))
        m3 == add_import_func(m2, "internal", "is_pat_match_at",
                              FuncType(<<I32, I64>>, <<I32>>))
        m4 == add_import_func(m3, "internal", "is_pat_match_in",
                              FuncType(<<I32, I64, I64>>, <<I32>>))
        m5 == locals_add(m4, I64)
        m6 == locals_add(m5, I32)
        m7 == locals_add(m6, I32)
        m8 == [m7 EXCEPT !.types = @ \cup {FuncType(<<>>, <<>>)}]
    IN  [ module |-> m8,
          wasm_symbols |->
            [ rule_match      |-> Len(m1.funcs),
              is_pat_match    |-> Len(m2.funcs),
              is_pat_match_at |-> Len(m3.funcs),
              is_pat_match_in |-> Len(m4.funcs),
              i64_tmp         |-> Len(m5.locals),
              i32_tmp         |-> Len(m6.locals),
              exception_flag  |-> Len(m7.locals) ],
          main_fn |-> [ty |-> FuncType(<<>>, <<>>), body |-> <<>>] ]

\* Mutant: every main_fn() call opens a fresh, empty body.
main_fn_new_body(mb) == [mb EXCEPT !.main_fn.body = <<>>]

\* ModuleBuilder::main_fn(): a handle on the body of the one FunctionBuilder
\* made by new(); the builder itself is left as it is.
main_fn(mb) == mb

\* InstrSeqBuilder::instr through the handle: push onto main's body.
instr(mb, i) == [mb EXCEPT !.main_fn.body = Append(@, i)]

\* ModuleBuilder::wasm_symbols(): a clone of the symbol table.
wasm_symbols(mb) == mb.wasm_symbols

\* Mutant: main is finished but never exported.
build_no_export(mb) ==
    [mb.module EXCEPT
        !.funcs = Append(@, [kind |-> "local", ty |-> mb.main_fn.ty,
                             body |-> mb.main_fn.body])]

\* ModuleBuilder::build(): finish main into module.funcs, export it as "main".
build(mb) ==
    LET id == Len(mb.module.funcs) + 1
    IN  [mb.module EXCEPT
            !.funcs = Append(@, [kind |-> "local", ty |-> mb.main_fn.ty,
                                 body |-> mb.main_fn.body]),
            !.exports = Append(@, [name |-> "main", item |-> id])]

MainFnCall ==
    /\ builder # Consumed
    /\ ~handle
    /\ main_fn_calls < MaxMainFnCalls
    /\ builder' = main_fn(builder)
    /\ handle' = TRUE
    /\ main_fn_calls' = main_fn_calls + 1
    /\ UNCHANGED <<appended, symbols, artifact>>
    /\ UNCHANGED <<scanVars, lazyVars, evalVars>>

InstrCall(i) ==
    /\ builder # Consumed
    /\ handle
    /\ Len(appended) < MaxInstrs
    /\ builder' = instr(builder, i)
    /\ appended' = Append(appended, [call |-> main_fn_calls, instr |-> i])
    /\ UNCHANGED <<handle, main_fn_calls, symbols, artifact>>
    /\ UNCHANGED <<scanVars, lazyVars, evalVars>>

\* The InstrSeqBuilder goes out of scope: the mutable borrow of the builder ends.
DropHandle ==
    /\ handle
    /\ handle' = FALSE
    /\ UNCHANGED <<builder, main_fn_calls, appended, symbols, artifact>>
    /\ UNCHANGED <<scanVars, lazyVars, evalVars>>

WasmSymbolsCall ==
    /\ builder # Consumed
    /\ ~handle
    /\ symbols' = wasm_symbols(builder)
    /\ UNCHANGED <<builder, handle, main_fn_calls, appended, artifact>>
    /\ UNCHANGED <<scanVars, lazyVars, evalVars>>

\* Mutant: build takes the builder by reference and leaves it usable.
BuildCall_by_ref ==
    /\ builder # Consumed
    /\ ~handle
    /\ artifact' = build(builder)
    /\ UNCHANGED <<builder, handle, main_fn_calls, appended, symbols>>
    /\ UNCHANGED <<scanVars, lazyVars, evalVars>>

\* build(mut self): the builder is moved into the call and is gone afterwards.
BuildCall ==
    /\ builder # Consumed
    /\ ~handle
    /\ artifact' = build(builder)
    /\ builder' = Consumed
    /\ UNCHANGED <<handle, main_fn_calls, appended, symbols>>
    /\ UNCHANGED <<scanVars, lazyVars, evalVars>>

----------------------------------------------------------------------------
(* The lazy statics CONFIG, ENGINE and LINKER.                             *)

Statics == {"CONFIG", "ENGINE", "LINKER"}
Threads == {"t1", "t2"}
NoValue == [none |-> TRUE]

\* The wasm value type of a Rust parameter or result type of a host function.
val_type(t) == IF t = "i64" THEN I64 ELSE I32

\* The Rust signatures of the host functions, less the Caller parameter.
host_fn(name) ==
    CASE name = "rule_match" ->
            [params |-> <<"RuleId">>, results |-> <<>>]
      [] name = "is_pat_match" ->
            [params |-> <<"PatternId">>, results |-> <<"i32">>]
      [] name = "is_pat_match_at" ->
            [params |-> <<"PatternId", "i64">>, results |-> <<"i32">>]
      [] name = "is_pat_match_in" ->
            [params |-> <<"PatternId", "i64", "i64">>, results |-> <<"i32">>]

\* Mutant: the last binding is left out of the initializer.
wrapped_names_short == <<"rule_match", "is_pat_match", "is_pat_match_at">>

\* The names bound by LINKER's initializer, in the order of its func_wrap calls.
wrapped_names ==
    <<"rule_match", "is_pat_match", "is_pat_match_at", "is_pat_match_in">>

\* linker.func_wrap(module, name, f): bind (module, name) to f, with the wasm
\* signature wasmtime derives from f's Rust type.
func_wrap(linker, mod, name) ==
    Append(linker,
           [module |-> mod, name |-> name,
            ty |-> FuncType(
                [k \in 1 .. Len(host_fn(name).params) |->
                    val_type(host_fn(name).params[k])],
                [k \in 1 .. Len(host_fn(name).results) |->
                    val_type(host_fn(name).results[k])])])

\* The bindings of the link table LINKER's initializer returns.
RECURSIVE wrapped(_)
wrapped(k) ==
    IF k = 0 THEN <<>>
    ELSE func_wrap(wrapped(k - 1), "internal", wrapped_names[k])

linker_funcs == wrapped(Len(wrapped_names))

\* Linker::instantiate: every import of the module must be bound, under its
\* module and name, to a function of the import's signature.
instantiate(m, funcs) ==
    LET bound(imp) == {k \in 1 .. Len(funcs) :
                        funcs[k].module = imp.module /\ funcs[k].name = imp.name}
    IN  IF \E k \in 1 .. Len(m.imports) : bound(m.imports[k]) = {}
        THEN "missing import"
        ELSE IF \E k \in 1 .. Len(m.imports) :
                    \E b \in bound(m.imports[k]) :
                        funcs[b].ty # m.funcs[m.imports[k].func].ty
             THEN "signature mismatch"
             ELSE "ok"

\* What the initializer of a lazy static needs before its body can run.
Dep(x) == IF x = "LINKER" THEN "ENGINE" ELSE "CONFIG"

IdleThread ==
    [pc |-> "idle", need |-> "none", stack |-> <<>>, linker |-> <<>>,
     seen |-> NoValue]

Top(stack) == stack[Len(stack)]
Pop(stack) == SubSeq(stack, 1, Len(stack) - 1)

\* Thread t uses lazy static x (a compilation or a scan starts).
FirstUse(t, x) ==
    /\ thr[t].pc = "idle"
    /\ thr' = [thr EXCEPT ![t].pc = "deref", ![t].need = x]
    /\ UNCHANGED <<once, value, inits>>
    /\ UNCHANGED <<scanVars, builderVars, evalVars>>

\* Mutant: no Once: a thread that finds the static not yet complete runs the
\* initializer itself, also when another thread is already running it.
Deref_no_once(t) ==
    LET x == thr[t].need
    IN  /\ thr[t].pc = "deref"
        /\ IF once[x] = "complete"
           THEN /\ thr' = [thr EXCEPT
                        ![t].pc = IF thr[t].stack = <<>> THEN "idle" ELSE "init",
                        ![t].seen = IF thr[t].stack = <<>>
                                    THEN [static |-> x, value |-> value[x]]
                                    ELSE @]
                /\ UNCHANGED <<once, value, inits>>
           ELSE /\ once' = [once EXCEPT ![x] = "running"]
                /\ inits' = [inits EXCEPT ![x] = @ + 1]
                /\ thr' = [thr EXCEPT
                        ![t].stack = Append(@, x),
                        ![t].linker = <<>>,
                        ![t].pc = IF x = "CONFIG" THEN "init" ELSE "deref",
                        ![t].need = IF x = "CONFIG" THEN x ELSE Dep(x)]
                /\ UNCHANGED value
        /\ UNCHANGED <<scanVars, builderVars, evalVars>>

\* Deref of a lazy static (lazy_static!: Once::call_once, then the value).
\* Complete: the value is read. Incomplete: this thread runs the initializer,
\* which first needs the static it depends on. Running in another thread: the
\* caller blocks until that initializer has completed.
Deref(t) ==
    LET x == thr[t].need
    IN  /\ thr[t].pc = "deref"
        /\ once[x] # "running"
        /\ IF once[x] = "complete"
           THEN /\ thr' = [thr EXCEPT
                        ![t].pc = IF thr[t].stack = <<>> THEN "idle" ELSE "init",
                        ![t].seen = IF thr[t].stack = <<>>
                                    THEN [static |-> x, value |-> value[x]]
                                    ELSE @]
                /\ UNCHANGED <<once, value, inits>>
           ELSE /\ once' = [once EXCEPT ![x] = "running"]
                /\ inits' = [inits EXCEPT ![x] = @ + 1]
                /\ thr' = [thr EXCEPT
                        ![t].stack = Append(@, x),
                        ![t].linker = <<>>,
                        ![t].pc = IF x = "CONFIG" THEN "init" ELSE "deref",
                        ![t].need = IF x = "CONFIG" THEN x ELSE Dep(x)]
                /\ UNCHANGED value
        /\ UNCHANGED <<scanVars, builderVars, evalVars>>

\* The initializer's result is stored and the Once completes.
Complete(t, x, v) ==
    /\ value' = [value EXCEPT ![x] = v]
    /\ once' = [once EXCEPT ![x] = "complete"]
    /\ thr' = [thr EXCEPT ![t].stack = Pop(@), ![t].pc = "deref", ![t].need = x]
    /\ UNCHANGED inits

\* One step of the body of the initializer thread t is running.
InitBody(t) ==
    /\ thr[t].pc = "init"
    /\ thr[t].stack # <<>>
    /\ LET x == Top(thr[t].stack)
       IN  CASE x = "CONFIG" ->
                    Complete(t, x, [config |-> "default"])
             [] x = "ENGINE" ->
                    Complete(t, x, [engine_of |-> value["CONFIG"]])
             [] x = "LINKER" ->
                    IF Len(thr[t].linker) < Len(wrapped_names)
                    THEN /\ thr' = [thr EXCEPT ![t].linker =
                                func_wrap(@, "internal",
                                          wrapped_names[Len(@) + 1])]
                         /\ UNCHANGED <<once, value, inits>>
                    ELSE Complete(t, x, [linker_of |-> value["ENGINE"],
                                         funcs |-> thr[t].linker])
    /\ UNCHANGED <<scanVars, builderVars, evalVars>>

----------------------------------------------------------------------------
(* The generated main function: one block per rule, in rule-id order.       *)

Outcomes == {"true", "false", "exception"}

\* Mutant: the flag is not cleared when the next rule's block starts.
rule_prologue_sticky(flag) == flag

\* Start of a rule's block: the exception flag is cleared.
rule_prologue(flag) == 0

\* The flag after an operation of the condition: set to 1 when it raised.
after_operation(flag, result) == IF result = "exception" THEN 1 ELSE flag

\* Whether the block ends in a call to rule_match: the condition was true and
\* no exception was flagged.
reports(flag, result) == flag = 0 /\ result = "true"

MainStart == [rule |-> 0, phase |-> "begin", flag |-> 0]

InMain(s) == Running(s) /\ ev[s].phase # "done"

\* The block of the next rule begins.
BeginRule(s) ==
    /\ InMain(s)
    /\ ev[s].phase = "begin"
    /\ ev' = [ev EXCEPT ![s].flag = rule_prologue(@), ![s].phase = "eval"]
    /\ UNCHANGED <<outcome, scanVars, builderVars, lazyVars>>

\* The rule's condition is evaluated; an operation that raises sets the flag
\* and the rest of the condition is skipped.
EvalRule(s) ==
    /\ InMain(s)
    /\ ev[s].phase = "eval"
    /\ ev' = [ev EXCEPT
                ![s].flag = after_operation(@, outcome[s][ev[s].rule]),
                ![s].phase = "report"]
    /\ UNCHANGED <<outcome, scanVars, builderVars, lazyVars>>

\* End of the block: rule_match is called for a true condition, and main goes
\* on to the next rule or returns.
EndRule(s) ==
    /\ InMain(s)
    /\ ev[s].phase = "report"
    /\ LET r == ev[s].rule
           hit == reports(ev[s].flag, outcome[s][r])
       IN  /\ ctx' = [ctx EXCEPT ![s] = IF hit THEN rule_match(@, r) ELSE @]
           /\ status' = [status EXCEPT
                    ![s] = IF hit /\ rule_match_panics(ctx[s], r)
                           THEN "trapped" ELSE @]
           /\ calls' = IF hit THEN Append(calls, [scan |-> s, rule_id |-> r])
                       ELSE calls
           /\ last' = IF hit
                      THEN [scan |-> s, fn |-> "rule_match", args |-> <<r>>,
                            ret |-> <<>>]
                      ELSE last
           /\ ev' = [ev EXCEPT
                    ![s].rule = r + 1,
                    ![s].phase = IF r + 1 < RuleCount THEN "begin" ELSE "done"]
    /\ UNCHANGED <<outcome, builderVars, lazyVars>>

----------------------------------------------------------------------------
(* Specifications.                                                         *)

InitEval ==
    /\ outcome = [s \in Scans |-> [r \in RuleIds |-> "false"]]
    /\ ev = [s \in Scans |-> MainStart]

InitLazy ==
    /\ once = [x \in Statics |-> "incomplete"]
    /\ value = [x \in Statics |-> NoValue]
    /\ inits = [x \in Statics |-> 0]
    /\ thr = [t \in Threads |-> IdleThread]

InitBuilder ==
    /\ builder = new
    /\ handle = FALSE
    /\ main_fn_calls = 0
    /\ appended = <<>>
    /\ symbols = NoSymbols
    /\ artifact = NoModule

InitHistory ==
    /\ calls = <<>>
    /\ last = NoCall

\* Two scans of the same compiled rules, each with its own fresh context.
Init ==
    /\ ctx = [s \in Scans |->
                NewScanContext(RuleCount,
                               IF s = "s1" THEN ScenarioIndex ELSE EmptyIndex)]
    /\ status = [s \in Scans |-> "running"]
    /\ InitHistory
    /\ InitBuilder
    /\ InitLazy
    /\ InitEval

\* One scan, over data with any pattern-match index.
InitQuery ==
    /\ \E index \in Indexes :
            ctx = [s \in {"s1"} |-> NewScanContext(RuleCount, index)]
    /\ status = [s \in {"s1"} |-> "running"]
    /\ InitHistory
    /\ InitBuilder
    /\ InitLazy
    /\ InitEval

Next ==
    \/ \E s \in Scans, r \in RuleIdArgs : RuleMatchCall(s, r)
    \/ \E s \in Scans, p \in PatternIdArgs : IsPatMatchCall(s, p)
    \/ \E s \in Scans, p \in PatternIdArgs, o \in RecordedOffsets :
            IsPatMatchAtCall(s, p, o)
    \/ \E s \in Scans, p \in PatternIdArgs, lo \in RecordedOffsets :
            IsPatMatchInCall(s, p, lo, I64_MAX)

\* The scan's queries, before and after at most one rule_match call.
NextQuery ==
    \/ \E r \in RuleIdArgs : calls = <<>> /\ RuleMatchCall("s1", r)
    \/ \E p \in PatternIdArgs : IsPatMatchCall("s1", p)
    \/ \E p \in PatternIdArgs, o \in OffsetArgs : IsPatMatchAtCall("s1", p, o)
    \/ \E p \in PatternIdArgs, lo \in OffsetArgs, hi \in OffsetArgs :
            IsPatMatchInCall("s1", p, lo, hi)

NextBuilder ==
    \/ MainFnCall
    \/ \E i \in Instrs : InstrCall(i)
    \/ DropHandle
    \/ WasmSymbolsCall
    \/ BuildCall

Spec == Init /\ [][Next]_vars

SpecQuery == InitQuery /\ [][NextQuery]_vars

SpecBuilder == Init /\ [][NextBuilder]_vars

NextLazy ==
    \/ \E t \in Threads, x \in Statics : FirstUse(t, x)
    \/ \E t \in Threads : Deref(t)
    \/ \E t \in Threads : InitBody(t)

SpecLazy == Init /\ [][NextLazy]_vars

\* Two scans whose rule conditions each yield any outcome on the scanned data.
InitMain ==
    /\ ctx = [s \in Scans |-> NewScanContext(RuleCount, EmptyIndex)]
    /\ status = [s \in Scans |-> "running"]
    /\ InitHistory
    /\ InitBuilder
    /\ InitLazy
    /\ outcome \in [Scans -> [RuleIds -> Outcomes]]
    /\ ev = [s \in Scans |-> MainStart]

NextMain ==
    \/ \E s \in Scans : BeginRule(s)
    \/ \E s \in Scans : EvalRule(s)
    \/ \E s \in Scans : EndRule(s)

SpecMain == InitMain /\ [][NextMain]_vars

----------------------------------------------------------------------------
(* Properties.                                                             *)

Range(seq) == {seq[k] : k \in 1 .. Len(seq)}

\* rule_match(i) was invoked by scan s at least once.
Invoked(s, i) ==
    \E k \in 1 .. Len(calls) : calls[k].scan = s /\ calls[k].rule_id = i

\* Bit i of scan s's bitmap is set.
BitSet(s, i) ==
    /\ (i + 1) \in DOMAIN ctx[s].rules_matching_bitmap
    /\ ctx[s].rules_matching_bitmap[i + 1]

\* The position of the first occurrence of x in seq (0 when absent).
FirstIdx(seq, x) ==
    IF x \in Range(seq)
    THEN CHOOSE k \in 1 .. Len(seq) :
            seq[k] = x /\ \A j \in 1 .. (k - 1) : seq[j] # x
    ELSE 0

\* The position in the call history of scan s's first rule_match(i) (0 if none).
FirstCall(s, i) ==
    IF Invoked(s, i)
    THEN CHOOSE k \in 1 .. Len(calls) :
            /\ calls[k].scan = s /\ calls[k].rule_id = i
            /\ \A j \in 1 .. (k - 1) : ~(calls[j].scan = s /\ calls[j].rule_id = i)
    ELSE 0

IsPrefix(a, b) ==
    Len(a) <= Len(b) /\ \A k \in 1 .. Len(a) : a[k] = b[k]

\* C1: in every scan and for every rule id i in [0, rule count), bit i of the
\* match bitmap is set iff rule_match(i) was invoked at least once in that
\* scan, whatever other host calls were made; a fresh context (no call yet)
\* has no bit set.
C1_BitIffInvoked ==
    \A s \in DOMAIN ctx : \A i \in RuleIds : BitSet(s, i) <=> Invoked(s, i)

\* A scan with one rule reported and another not, observed after a query call.
C1_Witness ==
    /\ \E s \in DOMAIN ctx : \E i, j \in RuleIds :
            BitSet(s, i) /\ Invoked(s, i) /\ ~BitSet(s, j) /\ ~Invoked(s, j)
    /\ last.fn = "is_pat_match_in"

\* C2: a host call with an id outside the compiled set never raises:
\* rule_match(r) with r outside [0, rule count) leaves bitmap and list as they
\* were and does not abort the scan, and the three queries return 0 for an
\* unknown pattern id.
C2_OutOfRangeNeverRaises ==
    [][ /\ (calls' # calls /\ calls'[Len(calls')].rule_id \notin RuleIds)
            => (ctx' = ctx /\ status' = status)
        /\ (last'.fn \in {"is_pat_match", "is_pat_match_at", "is_pat_match_in"}
             /\ last'.args[1] \notin PatternIds)
            => last'.ret = <<0>>
      ]_vars

\* C3: isolation. A rule_match call of one scan leaves every other scan's
\* context as it was, and no scan's bitmap or match list holds a rule id that
\* only another scan reported.
C3_Isolation ==
    /\ [](\A s \in DOMAIN ctx : \A i \in RuleIds :
            (BitSet(s, i) \/ i \in Range(ctx[s].rules_matching)) => Invoked(s, i))
    /\ [][ calls' # calls =>
            \A t \in DOMAIN ctx :
                t # calls'[Len(calls')].scan => ctx'[t] = ctx[t] ]_vars

\* The two scans' calls interleave and each reported a rule the other did not.
C3_Witness ==
    /\ Len(calls) = 3
    /\ calls[1].scan = "s1" /\ calls[2].scan = "s2" /\ calls[3].scan = "s1"
    /\ \E i, j \in RuleIds :
            /\ i # j
            /\ Invoked("s1", i) /\ ~Invoked("s2", i) /\ BitSet("s1", i)
            /\ Invoked("s2", j) /\ ~Invoked("s1", j) /\ BitSet("s2", j)

\* C4: is_pat_match_at(p, o) returns 1 iff o is one of the offsets recorded
\* for pattern p in the scan's pattern-match index, and 0 otherwise.
C4_AtIffRecorded ==
    last.fn = "is_pat_match_at" =>
        /\ last.ret[1] \in {0, 1}
        /\ last.ret[1] = 1 <=>
                last.args[2] \in Recorded(ctx[last.scan], last.args[1])

\* C5: is_pat_match_in(p, lower, upper) returns 1 iff some offset o recorded
\* for pattern p has lower <= o <= upper, and 0 otherwise.
C5_InIffInRange ==
    last.fn = "is_pat_match_in" =>
        /\ last.ret[1] \in {0, 1}
        /\ last.ret[1] = 1 <=>
                \E o \in Recorded(ctx[last.scan], last.args[1]) :
                    last.args[2] <= o /\ o <= last.args[3]

\* C6: is_pat_match(p) returns what is_pat_match_in(p, MIN, MAX) returns on
\* the same index, and it is 1 iff pattern p was found anywhere in the data.
C6_AnywhereIffFullRange ==
    last.fn = "is_pat_match" =>
        /\ last.ret[1] =
                is_pat_match_in(ctx[last.scan], last.args[1], I64_MIN, I64_MAX)
        /\ last.ret[1] = 1 <=> Recorded(ctx[last.scan], last.args[1]) # {}

\* C7: in every reachable state of a scan the match bitmap is exactly as long
\* as the compiled rule count: no host call grows or shrinks it.
C7_BitmapLength ==
    \A s \in DOMAIN ctx : Len(ctx[s].rules_matching_bitmap) = RuleCount

\* A valid rule was reported and an out-of-range id was passed to rule_match.
C7_Witness ==
    /\ \E k \in 1 .. Len(calls) : calls[k].rule_id \in RuleIds
    /\ \E k \in 1 .. Len(calls) : calls[k].rule_id >= RuleCount
    /\ \E k \in 1 .. Len(calls) : calls[k].rule_id < 0

\* C8: the match list records first-match order: for distinct rule ids a, b
\* both reported in a scan, a's first entry precedes b's first entry iff the
\* first rule_match(a) came before the first rule_match(b); and a call never
\* reorders or removes the entries already in the list.
C8_FirstMatchOrder ==
    /\ [](\A s \in DOMAIN ctx : \A a, b \in RuleIds :
            (a # b /\ Invoked(s, a) /\ Invoked(s, b)) =>
                /\ FirstIdx(ctx[s].rules_matching, a) > 0
                /\ FirstIdx(ctx[s].rules_matching, b) > 0
                /\ (FirstIdx(ctx[s].rules_matching, a)
                        < FirstIdx(ctx[s].rules_matching, b))
                   <=> (FirstCall(s, a) < FirstCall(s, b)))
    /\ [][ \A s \in DOMAIN ctx :
            IsPrefix(ctx[s].rules_matching, ctx'[s].rules_matching) ]_vars

\* One scan reported a rule, then another, then the first one again.
C8_Witness ==
    \E s \in DOMAIN ctx :
        LET list == ctx[s].rules_matching
        IN  Len(list) = 3 /\ list[1] # list[2] /\ list[3] = list[1]

\* The instructions appended so far, in the order they were appended.
AppendedInstrs == [k \in 1 .. Len(appended) |-> appended[k].instr]

LocalFuncs(m) == {k \in 1 .. Len(m.funcs) : m.funcs[k].kind = "local"}

\* C9: whatever the number of main_fn() calls, the instructions appended
\* through the returned handles are, in the order appended, the single body
\* of the entry function: while building, the builder's body is exactly that
\* sequence; after build(), the module has one local function, exported as
\* "main", with exactly that body.
C9_Accumulates ==
    /\ builder # Consumed => builder.main_fn.body = AppendedInstrs
    /\ artifact # NoModule =>
            /\ Cardinality(LocalFuncs(artifact)) = 1
            /\ \E k \in 1 .. Len(artifact.exports) :
                    /\ artifact.exports[k].name = "main"
                    /\ artifact.exports[k].item \in LocalFuncs(artifact)
                    /\ artifact.funcs[artifact.exports[k].item].body
                            = AppendedInstrs

\* A built module whose instructions came through different main_fn() handles.
C9_Witness ==
    /\ artifact # NoModule
    /\ Len(appended) >= 3
    /\ appended[1].call # appended[2].call
    /\ appended[2].call # appended[Len(appended)].call

\* C10: after build() the module exports exactly one item: a function named
\* "main" taking no parameter and returning no value, also when no
\* instruction was appended.
C10_OneExport ==
    artifact # NoModule =>
        /\ Len(artifact.exports) = 1
        /\ artifact.exports[1].name = "main"
        /\ artifact.exports[1].item \in LocalFuncs(artifact)
        /\ artifact.funcs[artifact.exports[1].item].ty = FuncType(<<>>, <<>>)

\* Built after main_fn() and wasm_symbols() calls, with nothing appended.
C10_Witness ==
    /\ artifact # NoModule
    /\ appended = <<>>
    /\ main_fn_calls >= 2
    /\ symbols # NoSymbols

\* C11: staging. Once build() has returned, the builder is consumed: no
\* main_fn() call, append, wasm_symbols() call or second build() happens on
\* it and the returned module never changes. The setup of new() is done once:
\* builder and module always hold exactly the four imports and three locals,
\* and before build() no function body other than main's exists.
C11_Staging ==
    /\ [](/\ (artifact # NoModule) <=> (builder = Consumed)
          /\ builder # Consumed =>
                /\ Len(builder.module.imports) = 4
                /\ Len(builder.module.locals) = 3
                /\ LocalFuncs(builder.module) = {}
                /\ builder.module.exports = <<>>
          /\ artifact # NoModule =>
                /\ Len(artifact.imports) = 4
                /\ Len(artifact.locals) = 3)
    /\ [][ artifact # NoModule =>
            /\ artifact' = artifact
            /\ builder' = Consumed
            /\ main_fn_calls' = main_fn_calls
            /\ appended' = appended
            /\ symbols' = symbols
            /\ handle' = handle ]_vars

\* A module built after appends through two handles and a wasm_symbols() call.
C11_Witness ==
    /\ artifact # NoModule
    /\ builder = Consumed
    /\ main_fn_calls >= 2
    /\ Len(appended) >= 2
    /\ symbols # NoSymbols

IsQuery(fn) == fn \in {"is_pat_match", "is_pat_match_at", "is_pat_match_in"}

\* C12: the three queries are pure: a query call leaves every scan context
\* (bitmap, match list, pattern-match index) and the scan's status as they
\* were, and a query repeated with the same arguments on the same context
\* returns the same value.
C12_QueriesPure ==
    [][ (IsQuery(last'.fn) /\ calls' = calls) =>
            /\ ctx' = ctx
            /\ status' = status
            /\ (last.fn = last'.fn /\ last.scan = last'.scan
                    /\ last.args = last'.args) => last'.ret = last.ret
      ]_vars

\* A query answered on a context that already holds a reported rule, over an
\* index with recorded offsets.
C12_Witness ==
    /\ last.fn = "is_pat_match_at"
    /\ last.args[1] \in PatternIds
    /\ Recorded(ctx[last.scan], last.args[1]) # {}
    /\ ctx[last.scan].rules_matching # <<>>

\* The rule ids scan s passed to rule_match with an id of the compiled set,
\* in call order.
ReportedBy(s) ==
    LET ByScan(c) == c.scan = s /\ c.rule_id \in RuleIds
        mine == SelectSeq(calls, ByScan)
    IN  [k \in 1 .. Len(mine) |-> mine[k].rule_id]

\* C16: append-always. Every rule_match(r) with r in [0, rule count) appends
\* exactly one entry r to the caller's match list, whether or not bit r was
\* already set, and leaves bit r set; so the list is the sequence of those
\* arguments in call order, repeats kept.
C16_AppendAlways ==
    /\ [](\A s \in DOMAIN ctx : ctx[s].rules_matching = ReportedBy(s))
    /\ [][ (calls' # calls /\ calls'[Len(calls')].rule_id \in RuleIds) =>
            LET c == calls'[Len(calls')]
            IN  /\ ctx'[c.scan].rules_matching
                        = Append(ctx[c.scan].rules_matching, c.rule_id)
                /\ ctx'[c.scan].rules_matching_bitmap[c.rule_id + 1] ]_vars

\* One rule reported twice in a scan: its bit is set and the list holds it twice.
C16_Witness ==
    \E s \in DOMAIN ctx : \E i \in RuleIds :
        /\ ctx[s].rules_matching = <<i, i>>
        /\ BitSet(s, i)
        /\ ReportedBy(s) = <<i, i>>

\* C17: bitmap and match list agree in every state a host call of the scan
\* can observe: an id occurs in the list iff its bit is set, and the list
\* holds ids of the compiled set only.
C17_BitmapListAgree ==
    \A s \in DOMAIN ctx :
        /\ Range(ctx[s].rules_matching) \subseteq RuleIds
        /\ \A i \in RuleIds :
                (i \in Range(ctx[s].rules_matching)) <=> BitSet(s, i)

\* A scan that reported one rule, not another, and then passed an id outside
\* the compiled set.
C17_Witness ==
    \E s \in DOMAIN ctx : \E i, j \in RuleIds :
        /\ BitSet(s, i) /\ i \in Range(ctx[s].rules_matching)
        /\ ~BitSet(s, j) /\ j \notin Range(ctx[s].rules_matching)
        /\ last.scan = s /\ last.fn = "rule_match"
        /\ last.args[1] \notin RuleIds

\* Bit i of a scan context's bitmap is set.
BitIn(scan_ctx, i) ==
    /\ (i + 1) \in DOMAIN scan_ctx.rules_matching_bitmap
    /\ scan_ctx.rules_matching_bitmap[i + 1]

\* C18: frame of rule_match(r): in the caller's context every bit other than
\* r keeps its value and the old list is a prefix of the new one, at most one
\* entry longer; and no host call ever clears a bit that is set.
C18_Frame ==
    [][ /\ \A s \in DOMAIN ctx : \A j \in RuleIds :
                BitIn(ctx[s], j) => BitIn(ctx'[s], j)
        /\ calls' # calls =>
            LET c == calls'[Len(calls')]
            IN  /\ \A j \in RuleIds :
                        j # c.rule_id =>
                            (BitIn(ctx'[c.scan], j) <=> BitIn(ctx[c.scan], j))
                /\ IsPrefix(ctx[c.scan].rules_matching,
                            ctx'[c.scan].rules_matching)
                /\ Len(ctx'[c.scan].rules_matching)
                        <= Len(ctx[c.scan].rules_matching) + 1 ]_vars

\* A scan in which a second rule was reported after a first, both bits set.
C18_Witness ==
    \E s \in DOMAIN ctx : \E i, j \in RuleIds :
        /\ i # j
        /\ ctx[s].rules_matching = <<i, j>>
        /\ BitSet(s, i) /\ BitSet(s, j)

\* C13: CONFIG, ENGINE and LINKER are each constructed at most once, and only
\* once a thread has used them, also when two threads make their first use at
\* the same time; a thread that obtains LINKER sees the complete link table,
\* all four host functions bound; a completed static never changes again.
C13_LazyOnce ==
    /\ [](\A x \in Statics :
            /\ inits[x] <= 1
            /\ (once[x] = "incomplete") <=> (inits[x] = 0)
            /\ (once[x] = "complete") <=> (value[x] # NoValue))
    /\ [](\A t \in Threads :
            (thr[t].seen # NoValue /\ thr[t].seen.static = "LINKER") =>
                /\ once["LINKER"] = "complete"
                /\ thr[t].seen.value = value["LINKER"]
                /\ {f.name : f \in Range(thr[t].seen.value.funcs)} =
                        {"rule_match", "is_pat_match", "is_pat_match_at",
                         "is_pat_match_in"}
                /\ thr[t].seen.value.linker_of = value["ENGINE"]
                /\ value["ENGINE"].engine_of = value["CONFIG"])
    /\ [][ \A x \in Statics :
            once[x] = "complete" =>
                (once'[x] = "complete" /\ value'[x] = value[x]) ]_vars

\* One thread is half-way through binding the host functions while the other
\* is making its first use of LINKER.
C13_Witness ==
    \E t, u \in Threads :
        /\ t # u
        /\ thr[t].pc = "init" /\ Top(thr[t].stack) = "LINKER"
        /\ Len(thr[t].linker) = 2
        /\ thr[u].pc = "deref" /\ thr[u].need = "LINKER"
        /\ thr[u].stack = <<>>
        /\ once["LINKER"] = "running"

\* The imports of a module, each with its signature.
ImportsOf(m) ==
    {[module |-> m.imports[k].module, name |-> m.imports[k].name,
      ty |-> m.funcs[m.imports[k].func].ty] : k \in 1 .. Len(m.imports)}

HostAbi ==
    { [module |-> "internal", name |-> "rule_match",
       ty |-> FuncType(<<I32>>, <<>>)],
      [module |-> "internal", name |-> "is_pat_match",
       ty |-> FuncType(<<I32>>, <<I32>>)],
      [module |-> "internal", name |-> "is_pat_match_at",
       ty |-> FuncType(<<I32, I64>>, <<I32>>)],
      [module |-> "internal", name |-> "is_pat_match_in",
       ty |-> FuncType(<<I32, I64, I64>>, <<I32>>)] }

\* C14: host ABI agreement. The imports registered by ModuleBuilder::new and
\* the bindings of LINKER are the same four functions of namespace
\* "internal", with the same names and signatures; so every module build()
\* returns instantiates without a missing import or a signature mismatch.
C14_AbiAgreement ==
    /\ Range(linker_funcs) = HostAbi
    /\ Len(linker_funcs) = 4
    /\ builder # Consumed =>
            /\ ImportsOf(builder.module) = HostAbi
            /\ Len(builder.module.imports) = 4
    /\ artifact # NoModule =>
            /\ ImportsOf(artifact) = Range(linker_funcs)
            /\ Len(artifact.imports) = 4
            /\ instantiate(artifact, linker_funcs) = "ok"

\* A built module whose main calls an imported host function.
C14_Witness ==
    /\ artifact # NoModule
    /\ "call_rule_match" \in Range(AppendedInstrs)

\* The rules of scan s whose condition is true, in rule-id order.
RECURSIVE TrueRules(_, _)
TrueRules(s, n) ==
    IF n = 0 THEN <<>>
    ELSE IF outcome[s][n - 1] = "true"
         THEN Append(TrueRules(s, n - 1), n - 1)
         ELSE TrueRules(s, n - 1)

\* C15: a rule whose condition raises a runtime exception is not reported in
\* that scan, the scan is not aborted, and every other rule is reported
\* exactly as its own condition decides: when main has returned, bit i is set
\* iff rule i's condition was true, and the match list holds those rules in
\* order, whatever the other rules' conditions did.
C15_ExceptionContained ==
    \A s \in DOMAIN ctx :
        /\ status[s] = "running"
        /\ \A r \in RuleIds :
                outcome[s][r] = "exception" => (~Invoked(s, r) /\ ~BitSet(s, r))
        /\ ev[s].phase = "done" =>
                /\ \A i \in RuleIds : BitSet(s, i) <=> outcome[s][i] = "true"
                /\ ctx[s].rules_matching = TrueRules(s, RuleCount)

\* A finished scan in which a rule raised and a later rule matched.
C15_Witness ==
    \E s \in DOMAIN ctx : \E r, i \in RuleIds :
        /\ ev[s].phase = "done"
        /\ r < i
        /\ outcome[s][r] = "exception" /\ ~BitSet(s, r)
        /\ outcome[s][i] = "true" /\ BitSet(s, i)

====
